---- MODULE Spec2Model ----
(***************************************************************************)
(* Model of the ingestion/merge pipeline and the SQLite storage backend of *)
(* registry.py (EstonianRegistry.merge, SQLiteBackend).                    *)
(*                                                                         *)
(* JSON values are tagged records: t = "null" | "n" (number) | "s" (text)  *)
(* | "a" (array, v a sequence) | "o" (object, v a function on its keys).   *)
(* A document column holds such a value; an SQL NULL is JNull.  Dates are  *)
(* numbers ordered as their ISO text is ordered, 0 standing for ''.        *)
(***************************************************************************)
EXTENDS Integers, Sequences, FiniteSets, TLC

VARIABLES
    companies,   \* the companies table: code -> row, for the codes that have a row
    persons,     \* the persons table (Person Index), in rowid order
    nextId,      \* the next AUTOINCREMENT id of the persons table
    sync_state,  \* the file names marked DONE in the sync_state table
    files,       \* file name -> the records of its extracted payload
    present,     \* the file names whose archive is in the download directory
    run,         \* the position of merge() in its loop
    batches,     \* the write batches issued by the current or last merge run
    conv,        \* derived columns and Person Index at the end of the last
                 \* completed forced run
    archive,     \* file name -> the state of its downloaded archive
    fg,          \* the position of find_group() in its traversal
    dl,          \* the Downloader: local and remote sizes, its workers
    q,           \* the last query or extraction call and what it returned
    tx           \* the open transaction of the connection

vars == <<companies, persons, nextId, sync_state, files, present, run, batches, conv,
          archive, fg, dl, q, tx>>

\* ------------------------------------------------------------------ bounds
MaxCode == 2
MaxBatch == 2
MaxRecs == 2
MaxAbsent == 1
MaxRowId == 4
MaxRebuildId == 2
MaxNode == 3
MaxDepth == 3
MaxWorkers == 3
MaxBytes == 2

Codes == 1..MaxCode

\* ------------------------------------------------------------- JSON values
JNull == [t |-> "null"]
JN(n) == [t |-> "n", v |-> n]
JS(s) == [t |-> "s", v |-> s]
JA(s) == [t |-> "a", v |-> s]
JO(f) == [t |-> "o", v |-> f]
EmptyObj == JO([k \in {} |-> JNull])

\* Python truthiness of a JSON value (None, 0, '', [] and {} are falsy)
Truthy(x) ==
    CASE x.t = "null" -> FALSE
      [] x.t = "n" -> x.v # 0
      [] x.t = "s" -> x.v # ""
      [] x.t = "a" -> Len(x.v) > 0
      [] x.t = "o" -> DOMAIN x.v # {}

\* dict.get(k, d)
Get(o, k, d) == IF k \in DOMAIN o.v THEN o.v[k] ELSE d

\* SQLite json_patch: the RFC 7396 merge patch
RECURSIVE json_patch(_, _)
json_patch(T, P) ==
    IF P.t # "o" THEN P
    ELSE LET T0 == IF T.t = "o" THEN T.v ELSE [k \in {} |-> JNull]
             keep == {k \in (DOMAIN T0) \cup (DOMAIN P.v) :
                        (k \in DOMAIN P.v) => (P.v[k].t # "null")}
         IN JO([k \in keep |->
                  IF k \in DOMAIN P.v
                  THEN json_patch(IF k \in DOMAIN T0 THEN T0[k] ELSE JNull, P.v[k])
                  ELSE T0[k]])

\* SQLite json_set(doc, '$.key', json(val)) on an object document
json_set(doc, key, val) ==
    JO([k \in (DOMAIN doc.v) \cup {key} |-> IF k = key THEN val ELSE doc.v[k]])

\* ------------------------------------------------ derived-column extraction
Start(c) == Get(c, "algus_kpv", JN(0)).v

\* the loop of _extract_latest_capital over the entries without an end date
RECURSIVE OpenBest(_, _, _)
OpenBest(caps, i, best) ==
    IF i > Len(caps) THEN best
    ELSE LET c == caps[i]
         IN IF ~Truthy(Get(c, "lopp_kpv", JNull))
               /\ (best = JNull \/ Start(c) > Start(best))
            THEN OpenBest(caps, i + 1, c)
            ELSE OpenBest(caps, i + 1, best)

\* max(caps, key=algus_kpv): the first entry with the greatest start
RECURSIVE MaxByStart(_, _, _)
MaxByStart(caps, i, best) ==
    IF i > Len(caps) THEN best
    ELSE IF Start(caps[i]) > Start(best)
         THEN MaxByStart(caps, i + 1, caps[i])
         ELSE MaxByStart(caps, i + 1, best)

\* the texts float() parses, with their values
FloatText == ("2500" :> 2500) @@ ("100" :> 100)

\* float(x): a number and a numeral convert, None and other text raise
ToFloat(x) ==
    IF x.t = "n" THEN x
    ELSE IF x.t = "s" /\ x.v \in DOMAIN FloatText THEN JN(FloatText[x.v])
    ELSE JNull

\* the selection without the preference for entries that have no end date
extract_latest_capital_latest_start(item) ==
    LET caps == Get(Get(item, "yldandmed", EmptyObj), "kapitalid", JA(<<>>))
    IN IF ~Truthy(caps) THEN <<JNull, JNull>>
       ELSE LET best == MaxByStart(caps.v, 2, caps.v[1])
                amt == ToFloat(Get(best, "kapitali_suurus", JNull))
                cur == Get(best, "kapitali_valuuta", JS("EUR"))
            IN IF amt = JNull THEN <<JNull, JNull>> ELSE <<amt, cur>>

\* <<amount, currency>>, JNull for None
extract_latest_capital(item) ==
    LET caps == Get(Get(item, "yldandmed", EmptyObj), "kapitalid", JA(<<>>))
    IN IF ~Truthy(caps) THEN <<JNull, JNull>>
       ELSE LET open == OpenBest(caps.v, 1, JNull)
                best == IF ~Truthy(open) THEN MaxByStart(caps.v, 2, caps.v[1]) ELSE open
                amt == ToFloat(Get(best, "kapitali_suurus", JNull))
                cur == Get(best, "kapitali_valuuta", JS("EUR"))
            IN IF amt = JNull THEN <<JNull, JNull>> ELSE <<amt, cur>>

\* the contact kinds whose lower-cased text contains the words the code tests
MailKinds == {"Elektronposti aadress"}
PhoneKinds == {"Telefon", "Mobiiltelefon"}
WebKinds == {"Interneti WWW aadress"}

KindOf(c) == LET k == Get(c, "liik_tekstina", JNull) IN IF Truthy(k) THEN k.v ELSE ""

\* the loop of _extract_contacts; acc = <<email, phone, website>>
RECURSIVE ContactLoop(_, _, _)
ContactLoop(cs, i, acc) ==
    IF i > Len(cs) THEN acc
    ELSE LET c == cs[i]
             val == Get(c, "sisu", JS(""))
             kind == KindOf(c)
         IN IF ~Truthy(val) THEN ContactLoop(cs, i + 1, acc)
            ELSE IF ~Truthy(acc[1]) /\ kind \in MailKinds
                 THEN ContactLoop(cs, i + 1, <<val, acc[2], acc[3]>>)
            ELSE IF ~Truthy(acc[2]) /\ kind \in PhoneKinds
                 THEN ContactLoop(cs, i + 1, <<acc[1], val, acc[3]>>)
            ELSE IF ~Truthy(acc[3]) /\ kind \in WebKinds
                 THEN ContactLoop(cs, i + 1, <<acc[1], acc[2], val>>)
            ELSE ContactLoop(cs, i + 1, acc)

extract_contacts(item) ==
    LET contacts == Get(Get(item, "yldandmed", EmptyObj), "sidevahendid", JA(<<>>))
    IN ContactLoop(contacts.v, 1, <<JNull, JNull, JNull>>)

Period(r) == Get(r, "majandusaasta_perioodi_lopp_kpv", JN(0)).v

\* sorted(reports, key=period, reverse=True): stable, greatest period first
RECURSIVE InsertDesc(_, _)
InsertDesc(sorted, r) ==
    IF sorted = <<>> THEN <<r>>
    ELSE IF Period(Head(sorted)) >= Period(r)
         THEN <<Head(sorted)>> \o InsertDesc(Tail(sorted), r)
         ELSE <<r>> \o sorted

RECURSIVE SortDesc(_, _, _)
SortDesc(rs, i, acc) ==
    IF i > Len(rs) THEN acc ELSE SortDesc(rs, i + 1, InsertDesc(acc, rs[i]))

\* int(x): a number converts, non-numeric text raises and the loop goes on
RECURSIVE FirstEmployees(_, _)
FirstEmployees(rs, i) ==
    IF i > Len(rs) THEN JNull
    ELSE LET emp == Get(rs[i], "tootajate_arv", JNull)
         IN IF emp.t = "n" THEN emp ELSE FirstEmployees(rs, i + 1)

extract_latest_employees(item) ==
    LET reports == Get(Get(item, "yldandmed", EmptyObj),
                       "info_majandusaasta_aruannetest", JA(<<>>))
    IN IF ~Truthy(reports) THEN JNull
       ELSE FirstEmployees(SortDesc(reports.v, 1, <<>>), 1)

\* ---------------------------------------------------------- SQLiteBackend
\* a row of the companies table; every column not written is SQL NULL
NewRow(i) ==
    [name |-> Get(i, "nimi", JNull),
     status |-> Get(i, "ettevotja_staatus_tekstina", JNull),
     full_data |-> i,
     enrichment |-> JNull,
     capital |-> JNull, capital_currency |-> JNull,
     email |-> JNull, phone |-> JNull, website |-> JNull,
     employee_count |-> JNull]

CodeOf(i) == Get(i, "ariregistri_kood", JNull)

\* INSERT OR REPLACE of one base record: the row of that code is deleted and
\* written anew
InsertOrReplace(comp, i) ==
    LET c == CodeOf(i).v
    IN [k \in (DOMAIN comp) \cup {c} |-> IF k = c THEN NewRow(i) ELSE comp[k]]

RECURSIVE insert_loop(_, _, _)
insert_loop(comp, batch, n) ==
    IF n > Len(batch) THEN comp
    ELSE insert_loop(InsertOrReplace(comp, batch[n]), batch, n + 1)

insert_batch_base(comp, batch) == insert_loop(comp, batch, 1)

\* update_batch_json writing the value as the whole document
update_batch_json_overwrite(comp, key, data_map) ==
    [c \in DOMAIN comp |->
        IF c \in DOMAIN data_map
        THEN [comp[c] EXCEPT !.full_data = JO(key :> data_map[c])]
        ELSE comp[c]]

\* update_batch_json as an upsert: a code without a row gets one
update_batch_json_upsert(comp, key, data_map) ==
    [c \in (DOMAIN comp) \cup (DOMAIN data_map) |->
        IF c \in DOMAIN data_map
        THEN IF c \in DOMAIN comp
             THEN [comp[c] EXCEPT !.full_data = json_set(@, key, data_map[c])]
             ELSE [NewRow(EmptyObj) EXCEPT !.full_data = JO(key :> data_map[c])]
        ELSE comp[c]]

\* UPDATE companies SET full_data = json_set(...) WHERE code = ?
update_batch_json(comp, key, data_map) ==
    [c \in DOMAIN comp |->
        IF c \in DOMAIN data_map
        THEN [comp[c] EXCEPT !.full_data = json_set(@, key, data_map[c])]
        ELSE comp[c]]

\* the column assignments update_batch_general and rebuild_derived_columns
\* build from the extraction functions
SetDerived(row, item) ==
    LET cap == extract_latest_capital(item)
        con == extract_contacts(item)
        emp == extract_latest_employees(item)
    IN [row EXCEPT
          !.capital = IF cap[1] # JNull THEN cap[1] ELSE @,
          !.capital_currency = IF cap[1] # JNull THEN cap[2] ELSE @,
          !.email = IF Truthy(con[1]) THEN con[1] ELSE @,
          !.phone = IF Truthy(con[2]) THEN con[2] ELSE @,
          !.website = IF Truthy(con[3]) THEN con[3] ELSE @,
          !.employee_count = IF emp # JNull THEN emp ELSE @]

GeneralOne(comp, item) ==
    LET code == CodeOf(item)
    IN IF ~Truthy(code) \/ code.v \notin DOMAIN comp THEN comp
       ELSE LET st == Get(item, "staatus_tekstina", JNull)
                r1 == [comp[code.v] EXCEPT !.full_data = json_patch(@, item)]
                r2 == [r1 EXCEPT !.status = IF Truthy(st) THEN st ELSE @]
            IN [comp EXCEPT ![code.v] = SetDerived(r2, item)]

RECURSIVE general_loop(_, _, _)
general_loop(comp, batch, n) ==
    IF n > Len(batch) THEN comp
    ELSE general_loop(GeneralOne(comp, batch[n]), batch, n + 1)

update_batch_general(comp, batch) == general_loop(comp, batch, 1)

\* the UPDATE without its WHERE clause
update_enrichment_every_row(comp, code, enrichment) ==
    [c \in DOMAIN comp |-> [comp[c] EXCEPT !.enrichment = enrichment]]

update_enrichment(comp, code, enrichment) ==
    [c \in DOMAIN comp |->
        IF c = code THEN [comp[c] EXCEPT !.enrichment = enrichment] ELSE comp[c]]

\* search(term=str(code)): the documents of the rows with that code, the
\* enrichment added under "enrichment" when the column is not empty
search_code(comp, code) ==
    IF code \in DOMAIN comp
    THEN <<IF comp[code].enrichment # JNull
           THEN json_set(comp[code].full_data, "enrichment", comp[code].enrichment)
           ELSE comp[code].full_data>>
    ELSE <<>>

rebuild_derived_columns(comp) ==
    [c \in DOMAIN comp |-> SetDerived(comp[c], comp[c].full_data)]

\* is_file_processed that finds no marker
is_file_processed_never(state, f) == FALSE

is_file_processed(state, f) == f \in state

mark_file_status(state, f) == state \cup {f}

\* ------------------------------------------------------------------ inputs
BoundedSeq(S, n) == UNION {[1..k -> S] : k \in 0..n}

BaseNames == {"Alpha", "Beta"}

\* a row of the base CSV after merge has converted its code
BaseItem(c, n) == JO(("ariregistri_kood" :> JN(c)) @@ ("nimi" :> JS(n)))

BaseItems == {BaseItem(c, n) : c \in Codes, n \in BaseNames}

CapEntry == JO(("kapitali_suurus" :> JN(2500)) @@ ("kapitali_valuuta" :> JS("EUR"))
               @@ ("algus_kpv" :> JN(1)) @@ ("lopp_kpv" :> JNull))

MailEntry == JO(("liik_tekstina" :> JS("Elektronposti aadress")) @@ ("sisu" :> JS("info@alpha.ee")))

ReportEntry == JO(("majandusaasta_perioodi_lopp_kpv" :> JN(1)) @@ ("tootajate_arv" :> JN(5)))

\* records of the general-data file: one with a capital history, a status and
\* a null-valued top-level field, one with contacts, a report and a
\* null-valued nested field
GeneralCapital(c) ==
    JO(("ariregistri_kood" :> JN(c)) @@ ("nimi" :> JNull)
       @@ ("staatus_tekstina" :> JS("Registrisse kantud"))
       @@ ("yldandmed" :> JO("kapitalid" :> JA(<<CapEntry>>))))

GeneralContacts(c) ==
    JO(("ariregistri_kood" :> JN(c))
       @@ ("yldandmed" :> JO(("kapitalid" :> JNull)
                             @@ ("sidevahendid" :> JA(<<MailEntry>>))
                             @@ ("info_majandusaasta_aruannetest" :> JA(<<ReportEntry>>)))))

GeneralItems == {GeneralCapital(c) : c \in Codes} \cup {GeneralContacts(c) : c \in Codes}

Person(n) == JO(("nimi_arinimi" :> JS("John Doe")) @@ ("isikukood_registrikood" :> JN(n)))

\* the owner the role files name for an entity: the next code, cyclically
OwnerOf(c) == (c % MaxCode) + 1

\* records of a role file: the entity code and, under the file's key, either
\* the list of persons or an object that holds the list under the same key
RoleList(key, c) ==
    JO(("ariregistri_kood" :> JN(c)) @@ (key :> JA(<<Person(OwnerOf(c))>>)))

RoleNested(key, c) ==
    JO(("ariregistri_kood" :> JN(c)) @@ (key :> JO(key :> JA(<<Person(OwnerOf(c))>>))))

RoleItems(key) == {RoleList(key, c) : c \in Codes} \cup {RoleNested(key, c) : c \in Codes}

Enrichments == {JO("unmasked_ids" :> JO("Test Person" :> JS("12345678901")))}

\* ------------------------------------------------------------ Person Index
\* the elements a for loop visits: those of a list, none that is an object
ListOf(x) == IF x.t = "a" THEN x.v ELSE <<>>

\* str(x) or None
StrOrNone(x) ==
    CASE x.t = "n" -> JS(ToString(x.v))
      [] x.t = "s" -> IF x.v = "" THEN JNull ELSE x
      [] OTHER -> JS("None")

PersonRow(code, source, p, nameKey) ==
    [company_code |-> code, source |-> source,
     last_name |-> LET n == Get(p, nameKey, JS("")) IN IF Truthy(n) THEN n ELSE JNull,
     id_code |-> StrOrNone(Get(p, "isikukood_registrikood", JS("")))]

RECURSIVE InnerRows(_, _, _, _, _)
InnerRows(code, source, ps, nameKey, i) ==
    IF i > Len(ps) THEN <<>>
    ELSE <<PersonRow(code, source, ps[i], nameKey)>>
         \o InnerRows(code, source, ps, nameKey, i + 1)

\* for group in data.get(docKey, []): if isinstance(group, dict):
\*     for p in group.get(innerKey, []): ...
RECURSIVE GroupRows(_, _, _, _, _, _)
GroupRows(code, source, groups, innerKey, nameKey, i) ==
    IF i > Len(groups) THEN <<>>
    ELSE (IF groups[i].t = "o"
          THEN InnerRows(code, source, ListOf(Get(groups[i], innerKey, JA(<<>>))), nameKey, 1)
          ELSE <<>>)
         \o GroupRows(code, source, groups, innerKey, nameKey, i + 1)

\* the extraction of populate_persons with only its shareholder loop
CompanyPersons_shareholders_only(code, data) ==
    GroupRows(code, "shareholder", ListOf(Get(data, "osanikud", JA(<<>>))),
              "osanikud", "nimi_arinimi", 1)

CompanyPersons(code, data) ==
    GroupRows(code, "board", ListOf(Get(data, "isikud", JA(<<>>))),
              "kaardile_kantud_isikud", "nimi_arinimi", 1)
    \o GroupRows(code, "shareholder", ListOf(Get(data, "osanikud", JA(<<>>))),
                 "osanikud", "nimi_arinimi", 1)
    \o GroupRows(code, "beneficiary", ListOf(Get(data, "kasusaajad", JA(<<>>))),
                 "kasusaajad", "nimi", 1)

\* the rows of SELECT code, full_data FROM companies, in rowid order
RECURSIVE AllPersons(_, _)
AllPersons(comp, c) ==
    IF \A k \in DOMAIN comp : k < c THEN <<>>
    ELSE (IF c \in DOMAIN comp THEN CompanyPersons(c, comp[c].full_data) ELSE <<>>)
         \o AllPersons(comp, c + 1)

InsertPersons(rows, first) ==
    [i \in 1..Len(rows) |->
        [id |-> first + i - 1, company_code |-> rows[i].company_code,
         source |-> rows[i].source, last_name |-> rows[i].last_name,
         id_code |-> rows[i].id_code]]

\* populate_persons without its DELETE: the old records stay
populate_persons_append(old, comp, first) ==
    old \o InsertPersons(AllPersons(comp, 1), first)

\* DELETE FROM persons, then INSERT of every extracted record under a fresh id
populate_persons(old, comp, first) == InsertPersons(AllPersons(comp, 1), first)

\* ------------------------------------------------------ EstonianRegistry
DATA_FILES == <<"lihtandmed", "yldandmed", "osanikud", "kasusaajad",
                "kaardile_kantud_isikud", "registrikaardid">>

AllFiles == {DATA_FILES[i] : i \in DOMAIN DATA_FILES}

RoleKeys == AllFiles \ {"lihtandmed", "yldandmed"}

ChunkSize == 1

\* the values update_batch_json is given: per code the list of the payloads
\* grouped for it
RoleVal(key, c) == JA(<<Get(RoleList(key, c), key, RoleList(key, c))>>)

DataMaps(key) == {[c \in S |-> RoleVal(key, c)] : S \in SUBSET Codes}

BackendKeys == {"osanikud", "kasusaajad"}

\* for f in DATA_FILES: if zp.exists(): extracted[f] = ...
Extracted(pres) == SelectSeq(DATA_FILES, LAMBDA f : f \in pres)

\* the skip test without its force flag
ShouldSkip_ignoring_force(force, state, f) == is_file_processed(state, f)

\* if not force and self.db.is_file_processed(f): continue
ShouldSkip(force, state, f) == ~force /\ is_file_processed(state, f)

\* int(code) returns: the code is a number; text that is no number raises
\* ValueError
IntParses(code) == code.t = "n"

\* the records read from position pos on until a batch is full, the file ends
\* or int() raises on a code: <<batch, position reached, raised>>
RECURSIVE ReadChunk(_, _, _, _)
ReadChunk(content, i, acc, size) ==
    IF i > Len(content) THEN <<acc, Len(content), FALSE>>
    ELSE IF Truthy(CodeOf(content[i])) /\ ~IntParses(CodeOf(content[i]))
         THEN <<acc, i, TRUE>>
    ELSE LET acc2 == IF Truthy(CodeOf(content[i])) THEN Append(acc, content[i]) ELSE acc
         IN IF Len(acc2) >= size THEN <<acc2, i, FALSE>>
            ELSE ReadChunk(content, i + 1, acc2, size)

\* groups[int(code)].append(item.get(key, item))
RECURSIVE GroupBy(_, _, _, _)
GroupBy(batch, key, i, groups) ==
    IF i > Len(batch) THEN groups
    ELSE LET c == CodeOf(batch[i]).v
             payload == Get(batch[i], key, batch[i])
             old == IF c \in DOMAIN groups THEN groups[c].v ELSE <<>>
         IN GroupBy(batch, key, i + 1,
                    [k \in (DOMAIN groups) \cup {c} |->
                        IF k = c THEN JA(Append(old, payload)) ELSE groups[k]])

\* the backend call merge() makes for one batch of file f
WriteBatch(comp, f, batch) ==
    IF f = "lihtandmed" THEN insert_batch_base(comp, batch)
    ELSE IF f = "yldandmed" THEN update_batch_general(comp, batch)
    ELSE update_batch_json(comp, f, GroupBy(batch, f, 1, [k \in {} |-> JNull]))

Idle == [phase |-> "idle", force |-> FALSE, idx |-> 0, pos |-> 0,
         processed |-> {}, completed |-> FALSE, raised |-> FALSE]

\* what zipfile finds in a downloaded archive: "ok" one payload, "corrupt" not
\* a readable zip (ZipFile or extractall raises), "empty" a zip without entry
\* (namelist()[0] raises)
ArchiveKinds == {"ok", "corrupt", "empty"}

AllOk == [f \in AllFiles |-> "ok"]

\* the present archives on which the extraction loop raises
BadArchives(pres, arch) == {f \in pres : arch[f] # "ok"}

FgIdle == [phase |-> "idle", root |-> 0, direction |-> "both", max_depth |-> 0,
           company |-> FALSE, parents |-> <<>>, queue |-> <<>>,
           visited |-> {}, subsidiaries |-> <<>>, expanded |-> <<>>]

\* no call made yet
QIdle == [op |-> "none"]

\* no transaction open
TxIdle == [open |-> FALSE]

\* the files a Downloader is given
DlFiles == {DATA_FILES[i] : i \in 1..MaxWorkers}

\* local: the size of each file in the download directory (0: no file);
\* remote: the size the server reports and serves; initial: the local sizes
\* when run() was called; pc: where each worker is; requests: the first byte
\* of each ranged request a worker has issued
DlIdle == [phase |-> "idle",
           local |-> [f \in DlFiles |-> 0], remote |-> [f \in DlFiles |-> 1],
           initial |-> [f \in DlFiles |-> 0],
           pc |-> [f \in DlFiles |-> "start"],
           requests |-> [f \in DlFiles |-> <<>>],
           result |-> FALSE, merged |-> FALSE]

NoConv == [valid |-> FALSE]

\* the derived columns of every row, and the Person Index without its ids
DerivedOf(comp) ==
    [c \in DOMAIN comp |->
        <<comp[c].capital, comp[c].capital_currency, comp[c].email,
          comp[c].phone, comp[c].website, comp[c].employee_count>>]

StripIds(ps) ==
    [i \in 1..Len(ps) |->
        [company_code |-> ps[i].company_code, source |-> ps[i].source,
         last_name |-> ps[i].last_name, id_code |-> ps[i].id_code]]

Cur == Extracted(present)[run.idx]

InLoop == run.phase = "pass" /\ run.idx <= Len(Extracted(present))

\* ------------------------------------------------------------ merge runs
Baseline ==
    [f \in AllFiles |->
        CASE f = "lihtandmed" -> <<BaseItem(1, "Alpha"), BaseItem(2, "Beta")>>
          [] f = "yldandmed" -> <<GeneralCapital(1), GeneralContacts(2)>>
          [] f = "osanikud" -> <<RoleNested(f, 2)>>
          [] OTHER -> <<RoleList(f, 1)>>]

Contents(f) ==
    CASE f = "lihtandmed" -> BoundedSeq(BaseItems, MaxRecs)
      [] f = "yldandmed" -> BoundedSeq(GeneralItems, MaxRecs)
      [] OTHER -> BoundedSeq(RoleItems(f), MaxRecs)

\* a record of file f whose code is text that is no number
BadCodeItem(f) == [Baseline[f][1] EXCEPT !.v["ariregistri_kood"] = JS("1O")]

\* file f with such a record before or after its records
BadCodeContents(f) == {<<BadCodeItem(f)>> \o Baseline[f], Baseline[f] \o <<BadCodeItem(f)>>}

Init ==
    /\ companies = [c \in {} |-> JNull]
    /\ persons = <<>>
    /\ nextId = 1
    /\ sync_state = {}
    /\ \/ /\ present = AllFiles
          /\ \E f \in AllFiles : \E content \in Contents(f) \cup BadCodeContents(f) :
                files = [Baseline EXCEPT ![f] = content]
       \/ /\ files = Baseline
          /\ present \in {S \in SUBSET AllFiles : Cardinality(AllFiles \ S) <= MaxAbsent}
    /\ \/ archive = AllOk
       \/ /\ files = Baseline /\ present = AllFiles
          /\ \E f \in AllFiles : \E k \in ArchiveKinds \ {"ok"} :
                archive = [AllOk EXCEPT ![f] = k]
    /\ run = Idle
    /\ batches = 0
    /\ conv = NoConv
    /\ fg = FgIdle
    /\ dl = DlIdle
    /\ q = QIdle
    /\ tx = TxIdle

StartMerge ==
    /\ run.phase = "idle"
    /\ BadArchives(present, archive) = {}
    /\ \E force \in BOOLEAN :
          /\ force => nextId <= MaxRowId
          /\ run' = [phase |-> "pass", force |-> force, idx |-> 1, pos |-> 0,
                     processed |-> {}, completed |-> FALSE, raised |-> FALSE]
    /\ batches' = 0
    /\ UNCHANGED <<companies, persons, nextId, sync_state, files, present, conv,
                 archive, fg, dl, q, tx>>

SkipFile ==
    /\ InLoop
    /\ ShouldSkip(run.force, sync_state, Cur)
    /\ run' = [run EXCEPT !.idx = @ + 1, !.pos = 0]
    /\ UNCHANGED <<companies, persons, nextId, sync_state, files, present, batches, conv,
                 archive, fg, dl, q, tx>>

ProcessBatch ==
    /\ InLoop
    /\ ~ShouldSkip(run.force, sync_state, Cur)
    /\ run.pos < Len(files[Cur])
    /\ LET chunk == ReadChunk(files[Cur], run.pos + 1, <<>>, ChunkSize)
       IN IF chunk[3]
          THEN /\ run' = [Idle EXCEPT !.raised = TRUE]
               /\ UNCHANGED <<companies, batches>>
          ELSE /\ run' = [run EXCEPT !.pos = chunk[2]]
               /\ IF chunk[1] # <<>>
                  THEN /\ companies' = WriteBatch(companies, Cur, chunk[1])
                       /\ batches' = batches + 1
                  ELSE UNCHANGED <<companies, batches>>
    /\ UNCHANGED <<persons, nextId, sync_state, files, present, conv,
                 archive, fg, dl, q, tx>>

MarkDone ==
    /\ InLoop
    /\ ~ShouldSkip(run.force, sync_state, Cur)
    /\ run.pos = Len(files[Cur])
    /\ sync_state' = mark_file_status(sync_state, Cur)
    /\ run' = [run EXCEPT !.idx = @ + 1, !.pos = 0, !.processed = @ \cup {Cur}]
    /\ UNCHANGED <<companies, persons, nextId, files, present, batches, conv,
                 archive, fg, dl, q, tx>>

\* the extraction loop raises on an archive it cannot unpack or that has no
\* entry: merge() is left before its processing loop starts
ExtractRaises ==
    /\ run.phase = "idle"
    /\ BadArchives(present, archive) # {}
    /\ run' = [Idle EXCEPT !.raised = TRUE]
    /\ batches' = 0
    /\ UNCHANGED <<companies, persons, nextId, sync_state, files, present, conv,
                   archive, fg, dl, q, tx>>

FinishMerge ==
    /\ run.phase = "pass"
    /\ run.idx > Len(Extracted(present))
    /\ ~run.force
    /\ run' = [run EXCEPT !.phase = "idle", !.completed = TRUE]
    /\ UNCHANGED <<companies, persons, nextId, sync_state, files, present, batches, conv,
                 archive, fg, dl, q, tx>>

RebuildDerived ==
    /\ run.phase = "pass"
    /\ run.idx > Len(Extracted(present))
    /\ run.force
    /\ companies' = rebuild_derived_columns(companies)
    /\ run' = [run EXCEPT !.phase = "persons"]
    /\ UNCHANGED <<persons, nextId, sync_state, files, present, batches, conv,
                 archive, fg, dl, q, tx>>

PopulatePersons ==
    /\ run.phase = "persons"
    /\ persons' = populate_persons(persons, companies, nextId)
    /\ nextId' = nextId + Len(AllPersons(companies, 1))
    /\ run' = [run EXCEPT !.phase = "idle", !.completed = TRUE]
    /\ conv' = [valid |-> TRUE, present |-> present, derived |-> DerivedOf(companies),
                index |-> StripIds(persons'), rows |-> persons']
    /\ UNCHANGED <<companies, sync_state, files, present, batches, archive, fg, dl, q, tx>>

\* the process is terminated, or an error leaves merge(), between two steps
Abort ==
    /\ run.phase # "idle"
    /\ run' = Idle
    /\ UNCHANGED <<companies, persons, nextId, sync_state, files, present, batches, conv,
                 archive, fg, dl, q, tx>>

Next ==
    \/ StartMerge
    \/ ExtractRaises
    \/ SkipFile
    \/ ProcessBatch
    \/ MarkDone
    \/ FinishMerge
    \/ RebuildDerived
    \/ PopulatePersons
    \/ Abort

Spec == Init /\ [][Next]_vars

\* --------------------------------------------- the backend, called directly
InitBackend ==
    /\ companies = [c \in {} |-> JNull]
    /\ persons = <<>>
    /\ nextId = 1
    /\ sync_state = {}
    /\ files = Baseline
    /\ present = {}
    /\ run = Idle
    /\ batches = 0
    /\ conv = NoConv
    /\ archive = AllOk
    /\ fg = FgIdle
    /\ dl = DlIdle
    /\ q = QIdle
    /\ tx = TxIdle

InsertBatchBase ==
    /\ \E batch \in BoundedSeq(BaseItems, MaxBatch) :
          companies' = insert_batch_base(companies, batch)
    /\ UNCHANGED <<persons, nextId, sync_state, files, present, run, batches, conv,
                 archive, fg, dl, q, tx>>

UpdateBatchJson ==
    /\ \E key \in BackendKeys : \E data_map \in DataMaps(key) :
          companies' = update_batch_json(companies, key, data_map)
    /\ UNCHANGED <<persons, nextId, sync_state, files, present, run, batches, conv,
                 archive, fg, dl, q, tx>>

UpdateBatchGeneral ==
    /\ \E batch \in BoundedSeq(GeneralItems, MaxBatch) :
          companies' = update_batch_general(companies, batch)
    /\ UNCHANGED <<persons, nextId, sync_state, files, present, run, batches, conv,
                 archive, fg, dl, q, tx>>

UpdateEnrichment ==
    /\ \E c \in Codes, e \in Enrichments :
          companies' = update_enrichment(companies, c, e)
    /\ UNCHANGED <<persons, nextId, sync_state, files, present, run, batches, conv,
                 archive, fg, dl, q, tx>>

NextBackend ==
    \/ InsertBatchBase
    \/ UpdateBatchJson
    \/ UpdateBatchGeneral
    \/ UpdateEnrichment

SpecBackend == InitBackend /\ [][NextBackend]_vars

\* ------------------------------------ the Person Index, rebuilt on demand
\* the document keys populate_persons reads and the key of the list inside a
\* group
PersonKeys == {"isikud", "osanikud", "kasusaajad"}

InnerKey(key) == IF key = "isikud" THEN "kaardile_kantud_isikud" ELSE key

\* the values stored under such a key: a list with one group that is an object
\* holding a person, or with one group that is itself a list
GroupVals(key, c) ==
    {JA(<<JO(InnerKey(key) :> JA(<<Person(OwnerOf(c))>>))>>),
     JA(<<JA(<<Person(OwnerOf(c))>>)>>)}

PersonsInsertBase ==
    /\ \E c \in Codes : companies' = insert_batch_base(companies, <<BaseItem(c, "Alpha")>>)
    /\ UNCHANGED <<persons, nextId, sync_state, files, present, run, batches, conv,
                   archive, fg, dl, q, tx>>

PersonsUpdateJson ==
    /\ \E key \in PersonKeys : \E c \in Codes : \E val \in GroupVals(key, c) :
          companies' = update_batch_json(companies, key, c :> val)
    /\ UNCHANGED <<persons, nextId, sync_state, files, present, run, batches, conv,
                   archive, fg, dl, q, tx>>

PopulatePersonsCall ==
    /\ nextId <= MaxRebuildId
    /\ persons' = populate_persons(persons, companies, nextId)
    /\ nextId' = nextId + Len(AllPersons(companies, 1))
    /\ UNCHANGED <<companies, sync_state, files, present, run, batches, conv,
                   archive, fg, dl, q, tx>>

NextPersons ==
    \/ PersonsInsertBase
    \/ PersonsUpdateJson
    \/ PopulatePersonsCall

SpecPersons == InitBackend /\ [][NextPersons]_vars

\* ---------------------------------------------------------- find_group
Nodes == 1..MaxNode

Directions == {"up", "down", "both"}

\* the elements of a set of codes in ascending order
RECURSIVE SetToSeq(_)
SetToSeq(S) ==
    IF S = {} THEN <<>>
    ELSE LET m == CHOOSE x \in S : \A y \in S : x <= y
         IN <<m>> \o SetToSeq(S \ {m})

\* the row of an entity whose document lists the given owners as shareholders
OwnedRow(c, owners) ==
    LET ps == SetToSeq(owners)
        group == JO("osanikud" :> JA([i \in DOMAIN ps |-> Person(ps[i])]))
    IN [NewRow(BaseItem(c, "Alpha")) EXCEPT
           !.full_data = json_set(@, "osanikud", JA(<<group>>))]

\* every order in which a SELECT without ORDER BY can return a set of rows
Orders(S) ==
    {o \in [1..Cardinality(S) -> S] : \A i, j \in DOMAIN o : i # j => o[i] # o[j]}

\* SELECT p.* ... WHERE p.company_code = ? AND p.source = 'shareholder'
ParentsOf(ps, comp, code) ==
    SelectSeq(ps, LAMBDA r : r.company_code = code /\ r.source = "shareholder"
                             /\ r.company_code \in DOMAIN comp)

\* SELECT DISTINCT p.company_code ... FROM persons p JOIN companies c ...
\* WHERE p.id_code = str(current_code) AND p.source = 'shareholder'
SubsOf(ps, comp, current_code) ==
    {ps[k].company_code : k \in {i \in DOMAIN ps :
        /\ ps[i].source = "shareholder"
        /\ ps[i].id_code = JS(ToString(current_code))
        /\ ps[i].company_code \in DOMAIN comp}}

\* the loop test with its depth bound only
GroupSkip_depth_only(depth, max_depth, current_code, visited) == depth >= max_depth

\* the loop test with its visited set only
GroupSkip_visited_only(depth, max_depth, current_code, visited) == current_code \in visited

\* if depth >= max_depth or current_code in visited: continue
GroupSkip(depth, max_depth, current_code, visited) ==
    depth >= max_depth \/ current_code \in visited

\* a result annotated with the depth of the entity that was expanded
SubEntry_parent_depth(company_code, depth, current_code) ==
    [company_code |-> company_code, depth |-> depth, parent_code |-> current_code]

\* sub["depth"] = depth + 1; sub["parent_code"] = current_code
SubEntry(company_code, depth, current_code) ==
    [company_code |-> company_code, depth |-> depth + 1, parent_code |-> current_code]

\* a store whose Person Index was rebuilt from documents that list, for each
\* entity, other codes as its owners
InitGroup ==
    /\ \E rows \in SUBSET Nodes : \E owners \in [rows -> SUBSET Nodes] :
          /\ \A c \in rows : c \notin owners[c]
          /\ companies = [c \in rows |-> OwnedRow(c, owners[c])]
    /\ persons = populate_persons(<<>>, companies, 1)
    /\ nextId = 1 + Len(persons)
    /\ sync_state = {}
    /\ files = Baseline
    /\ present = {}
    /\ run = Idle
    /\ batches = 0
    /\ conv = NoConv
    /\ archive = AllOk
    /\ fg = FgIdle
    /\ dl = DlIdle
    /\ q = QIdle
    /\ tx = TxIdle

\* find_group up to the start of its while loop
FindGroup ==
    /\ fg.phase \in {"idle", "done"}
    /\ \E code \in Nodes, direction \in Directions, max_depth \in 0..MaxDepth :
          LET start == [FgIdle EXCEPT !.root = code, !.direction = direction,
                                      !.max_depth = max_depth]
          IN IF code \notin DOMAIN companies
             THEN fg' = [start EXCEPT !.phase = "done"]
             ELSE LET up == [start EXCEPT
                               !.company = TRUE,
                               !.parents = IF direction \in {"up", "both"}
                                           THEN ParentsOf(persons, companies, code)
                                           ELSE <<>>]
                  IN IF direction \in {"down", "both"}
                     THEN fg' = [up EXCEPT !.phase = "loop", !.queue = <<<<code, 0>>>>]
                     ELSE fg' = [up EXCEPT !.phase = "done"]
    /\ UNCHANGED <<companies, persons, nextId, sync_state, files, present, run, batches,
                   conv, archive, dl, q, tx>>

\* one iteration of the while loop
GroupStep ==
    /\ fg.phase = "loop"
    /\ fg.queue # <<>>
    /\ LET current_code == Head(fg.queue)[1]
           depth == Head(fg.queue)[2]
       IN IF GroupSkip(depth, fg.max_depth, current_code, fg.visited)
          THEN fg' = [fg EXCEPT !.queue = Tail(@)]
          ELSE \E subs \in Orders(SubsOf(persons, companies, current_code)) :
                  fg' = [fg EXCEPT
                           !.visited = @ \cup {current_code},
                           !.expanded = Append(@, current_code),
                           !.subsidiaries = @ \o [i \in DOMAIN subs |->
                                                    SubEntry(subs[i], depth, current_code)],
                           !.queue = Tail(@) \o [i \in DOMAIN subs |->
                                                    <<subs[i], depth + 1>>]]
    /\ UNCHANGED <<companies, persons, nextId, sync_state, files, present, run, batches,
                   conv, archive, dl, q, tx>>

\* the queue is empty: return results
GroupReturn ==
    /\ fg.phase = "loop"
    /\ fg.queue = <<>>
    /\ fg' = [fg EXCEPT !.phase = "done"]
    /\ UNCHANGED <<companies, persons, nextId, sync_state, files, present, run, batches,
                   conv, archive, dl, q, tx>>

NextGroup ==
    \/ FindGroup
    \/ GroupStep
    \/ GroupReturn

SpecGroup == InitGroup /\ [][NextGroup]_vars

\* a thread that runs find_group goes on running it
SpecGroupFair == SpecGroup /\ WF_vars(GroupStep) /\ WF_vars(GroupReturn)

\* ----------------------------------------------------------- Downloader
\* the first byte asked for: the whole file, whatever is there
RangeStart_zero(curr) == 0

\* headers={'Range': f'bytes={curr}-'}
RangeStart(curr) == curr

\* the number of bytes a server sends for the range start- of a file of the
\* given size
Body(size, start) == IF start < size THEN size - start ELSE 0

\* run() stops waiting as soon as a worker has failed
JoinReady_first_failure(pc) ==
    \/ \E f \in DlFiles : pc[f] = "failed"
    \/ \A f \in DlFiles : pc[f] = "done"

\* run() without its joins: it returns once the threads are started
JoinReady_no_wait(pc) == TRUE

\* for t in threads: t.join()
JoinReady(pc) == \A f \in DlFiles : pc[f] \in {"done", "failed"}

InitDownload ==
    /\ companies = [c \in {} |-> JNull]
    /\ persons = <<>>
    /\ nextId = 1
    /\ sync_state = {}
    /\ files = Baseline
    /\ present = {}
    /\ run = Idle
    /\ batches = 0
    /\ conv = NoConv
    /\ archive = AllOk
    /\ fg = FgIdle
    /\ \E local \in [DlFiles -> 0..MaxBytes], remote \in [DlFiles -> 1..MaxBytes] :
          dl = [DlIdle EXCEPT !.local = local, !.remote = remote, !.initial = local]
    /\ q = QIdle
    /\ tx = TxIdle

\* run(): one thread per file is started
DlRun ==
    /\ dl.phase \in {"idle", "merged"}
    /\ dl' = [dl EXCEPT !.phase = "running", !.initial = dl.local,
                        !.pc = [f \in DlFiles |-> "start"],
                        !.requests = [f \in DlFiles |-> <<>>],
                        !.result = FALSE, !.merged = FALSE]
    /\ UNCHANGED <<companies, persons, nextId, sync_state, files, present, run, batches,
                   conv, archive, fg, q, tx>>

\* _dl up to its ranged request: the HEAD probe answers or raises, the local
\* size is compared with the size it gave
DlProbe(f) ==
    /\ dl.phase # "idle"
    /\ dl.pc[f] = "start"
    /\ \E ok \in BOOLEAN :
          dl' = [dl EXCEPT !.pc[f] = IF ~ok THEN "failed"
                                    ELSE IF dl.local[f] >= dl.remote[f] THEN "done"
                                    ELSE "probed"]
    /\ UNCHANGED <<companies, persons, nextId, sync_state, files, present, run, batches,
                   conv, archive, fg, q, tx>>

\* the ranged request and the copy of its response to the end of the local
\* file: all of it, or the bytes that arrived before an error
DlTransfer(f) ==
    /\ dl.phase # "idle"
    /\ dl.pc[f] = "probed"
    /\ LET start == RangeStart(dl.local[f])
           body == Body(dl.remote[f], start)
       IN \E got \in 0..body :
             dl' = [dl EXCEPT !.requests[f] = Append(@, start),
                              !.local[f] = @ + got,
                              !.pc[f] = IF got = body THEN "done" ELSE "failed"]
    /\ UNCHANGED <<companies, persons, nextId, sync_state, files, present, run, batches,
                   conv, archive, fg, q, tx>>

\* every thread has ended: return True
DlJoin ==
    /\ dl.phase = "running"
    /\ JoinReady(dl.pc)
    /\ dl' = [dl EXCEPT !.phase = "returned", !.result = TRUE]
    /\ UNCHANGED <<companies, persons, nextId, sync_state, files, present, run, batches,
                   conv, archive, fg, q, tx>>

\* sync(): after run() the merge is called
SyncCallsMerge ==
    /\ dl.phase = "returned"
    /\ dl' = [dl EXCEPT !.phase = "merged", !.merged = TRUE]
    /\ UNCHANGED <<companies, persons, nextId, sync_state, files, present, run, batches,
                   conv, archive, fg, q, tx>>

NextDownload ==
    \/ DlRun
    \/ \E f \in DlFiles : DlProbe(f)
    \/ \E f \in DlFiles : DlTransfer(f)
    \/ DlJoin
    \/ SyncCallsMerge

SpecDownload == InitDownload /\ [][NextDownload]_vars

\* every started thread runs to its end, and run() goes on once they have
SpecDownloadFair ==
    /\ SpecDownload
    /\ \A f \in DlFiles : WF_vars(DlProbe(f)) /\ WF_vars(DlTransfer(f))
    /\ WF_vars(DlJoin)

\* ---------------------------------------------------------------- search
\* pattern LIKE '%text%' for the patterns searched for and the texts and keys
\* of the stored values: the pairs <<pattern, text>> where the text contains
\* the pattern, letter case ignored
LikePairs ==
    {<<"Alpha", "Alpha">>, <<"Alpha", "info@alpha.ee">>,
     <<"John", "John Doe">>,
     <<"kantud", "Registrisse kantud">>, <<"kantud", "kaardile_kantud_isikud">>}

Like(pattern, text) == <<pattern, text>> \in LikePairs

\* column LIKE '%pattern%' on a JSON text column: the pattern is in a key or
\* in a text value of the serialized value; NULL LIKE ... is not true
RECURSIVE TextLike(_, _)
TextLike(pattern, x) ==
    CASE x.t = "s" -> Like(pattern, x.v)
      [] x.t = "a" -> \E i \in DOMAIN x.v : TextLike(pattern, x.v[i])
      [] x.t = "o" -> \E k \in DOMAIN x.v : Like(pattern, k) \/ TextLike(pattern, x.v[k])
      [] OTHER -> FALSE

\* term.isdigit() and int(term), for the terms that name a code
IsDigit(term) == \E n \in Codes : term = ToString(n)

IntOfTerm(term) == CHOOSE n \in Codes : term = ToString(n)

\* the WHERE clause search() builds; an argument not supplied is JNull
RowMatches(row, code, a) ==
    /\ Truthy(a.term)
       => IF IsDigit(a.term.v) THEN code = IntOfTerm(a.term.v)
          ELSE row.name.t = "s" /\ Like(a.term.v, row.name.v)
    /\ Truthy(a.status)
       => \/ row.status.t = "s" /\ Like(a.status.v, row.status.v)
          \/ TextLike(a.status.v, row.full_data)
    /\ Truthy(a.person)
       => \/ TextLike(a.person.v, row.full_data)
          \/ TextLike(a.person.v, row.enrichment)
    /\ a.min_capital # JNull => (row.capital # JNull /\ row.capital.v >= a.min_capital.v)
    /\ a.max_capital # JNull => (row.capital # JNull /\ row.capital.v <= a.max_capital.v)
    /\ a.has_email => row.email # JNull
    /\ a.has_phone => row.phone # JNull
    /\ a.has_website => row.website # JNull

\* the documents search() yields, in rowid order, the enrichment attached
RECURSIVE search_rows(_, _, _)
search_rows(comp, a, c) ==
    IF \A k \in DOMAIN comp : k < c THEN <<>>
    ELSE (IF c \in DOMAIN comp /\ RowMatches(comp[c], c, a)
          THEN search_code(comp, c) ELSE <<>>)
         \o search_rows(comp, a, c + 1)

search(comp, a) == search_rows(comp, a, 1)

SearchArgs ==
    [term : {JNull, JS("1"), JS("Alpha")},
     status : {JNull, JS("kantud")},
     person : {JNull, JS("John")},
     min_capital : {JNull, JN(2500)},
     max_capital : {JNull, JN(100)},
     has_email : BOOLEAN, has_phone : {FALSE}, has_website : {FALSE}]

\* a store filled by one call of each batch operation and an enrichment
InitSearch ==
    /\ \E b \in BoundedSeq(BaseItems, MaxBatch), g \in BoundedSeq(GeneralItems, 1),
          key \in {"osanikud", "kaardile_kantud_isikud"}, e \in {JNull} \cup Enrichments :
          \E m \in DataMaps(key) :
          LET filled == update_batch_json(
                            update_batch_general(
                                insert_batch_base([c \in {} |-> JNull], b), g),
                            key, m)
          IN companies = IF e = JNull THEN filled ELSE update_enrichment(filled, 1, e)
    /\ persons = <<>>
    /\ nextId = 1
    /\ sync_state = {}
    /\ files = Baseline
    /\ present = {}
    /\ run = Idle
    /\ batches = 0
    /\ conv = NoConv
    /\ archive = AllOk
    /\ fg = FgIdle
    /\ dl = DlIdle
    /\ q = QIdle
    /\ tx = TxIdle

Search ==
    /\ \E a \in SearchArgs : q' = [op |-> "search", args |-> a, result |-> search(companies, a)]
    /\ UNCHANGED <<companies, persons, nextId, sync_state, files, present, run, batches,
                   conv, archive, fg, dl, tx>>

NextSearch == Search

SpecSearch == InitSearch /\ [][NextSearch]_vars

\* ================================================================= claims
\* ------------------------------------- the capital extraction, on its own
MaxHist == 3

\* capital-history entries: start date missing, 1 or 2; open or ended; the
\* amount a number with a currency, a numeral, or text that is no number
HistEntries ==
    {JO(f) : f \in
        {st @@ en @@ am :
            st \in {<<>>, "algus_kpv" :> JN(1), "algus_kpv" :> JN(2)},
            en \in {"lopp_kpv" :> JNull, "lopp_kpv" :> JN(3)},
            am \in {("kapitali_suurus" :> JN(100)) @@ ("kapitali_valuuta" :> JS("USD")),
                    "kapitali_suurus" :> JS("2500"),
                    "kapitali_suurus" :> JS("n/a")}}}

CapitalItems ==
    {JO("ariregistri_kood" :> JN(1)),
     JO(("ariregistri_kood" :> JN(1)) @@ ("yldandmed" :> JO("kapitalid" :> JNull)))}
    \cup {JO(("ariregistri_kood" :> JN(1)) @@ ("yldandmed" :> JO("kapitalid" :> JA(h)))) :
             h \in BoundedSeq(HistEntries, MaxHist)}

InitCapital ==
    /\ companies = [c \in {} |-> JNull]
    /\ persons = <<>>
    /\ nextId = 1
    /\ sync_state = {}
    /\ files = Baseline
    /\ present = {}
    /\ run = Idle
    /\ batches = 0
    /\ conv = NoConv
    /\ archive = AllOk
    /\ fg = FgIdle
    /\ dl = DlIdle
    /\ q \in {[op |-> "input", item |-> it] : it \in CapitalItems}
    /\ tx = TxIdle

ExtractLatestCapital ==
    /\ q.op = "input"
    /\ q' = [op |-> "capital", item |-> q.item, result |-> extract_latest_capital(q.item)]
    /\ UNCHANGED <<companies, persons, nextId, sync_state, files, present, run, batches,
                   conv, archive, fg, dl, tx>>

NextCapital == ExtractLatestCapital

SpecCapital == InitCapital /\ [][NextCapital]_vars

\* ------------------------- the batch writes as transactions of statements
MaxTx == 2

\* the committed store: what a reader sees and what a rollback restores
StoreNow == [companies |-> companies, persons |-> persons, nextId |-> nextId]

\* a shareholder group for entity c as the role pass stores it
ShareGroup(c) == JA(<<JO("osanikud" :> JA(<<Person(OwnerOf(c))>>))>>)

\* the calls made on the backend: the batch writers and populate_persons
TxCalls ==
    {[op |-> "insert_batch_base", batch |-> b] :
        b \in BoundedSeq(BaseItems, MaxBatch) \ {<<>>}}
    \cup {[op |-> "update_batch_general", batch |-> b] :
             b \in BoundedSeq(GeneralItems, MaxBatch) \ {<<>>}}
    \cup {[op |-> "update_batch_json", key |-> "osanikud", data_map |-> m] :
             m \in {[c \in S |-> ShareGroup(c)] : S \in (SUBSET Codes) \ {{}}}}
    \cup {[op |-> "populate_persons"]}

\* the statements a call executes inside its "with self.conn:" block
NumStatements(call, work) ==
    CASE call.op = "insert_batch_base" -> Len(call.batch)
      [] call.op = "update_batch_general" -> Len(call.batch)
      [] call.op = "update_batch_json" -> Cardinality(DOMAIN call.data_map)
      [] call.op = "populate_persons" -> 1 + Len(AllPersons(work.companies, 1))

\* statement k of the call, executed on the connection's uncommitted state:
\* one INSERT OR REPLACE, one record of update_batch_general, one json_set
\* UPDATE, or for populate_persons the DELETE and then one INSERT per record
ExecStatement(call, k, work) ==
    CASE call.op = "insert_batch_base" ->
            [work EXCEPT !.companies = InsertOrReplace(@, call.batch[k])]
      [] call.op = "update_batch_general" ->
            [work EXCEPT !.companies = GeneralOne(@, call.batch[k])]
      [] call.op = "update_batch_json" ->
            LET c == SetToSeq(DOMAIN call.data_map)[k]
            IN [work EXCEPT !.companies =
                   update_batch_json(@, call.key, c :> call.data_map[c])]
      [] call.op = "populate_persons" ->
            IF k = 1 THEN [work EXCEPT !.persons = <<>>]
            ELSE [work EXCEPT
                    !.persons = @ \o InsertPersons(
                        <<AllPersons(work.companies, 1)[k - 1]>>, work.nextId),
                    !.nextId = @ + 1]

\* the exit of "with self.conn:" that keeps what the failed call had written
OnError_keep_partial(committed, work) == work

\* the exit of "with self.conn:" on an exception: rollback
OnError(committed, work) == committed

\* stores a call can find: empty; two entities, a shareholder under the first
\* and the Person Index built; the same with a shareholder added under the
\* second after the index was built
TxStores ==
    LET empty == [c \in {} |-> JNull]
        c1 == update_batch_json(
                  insert_batch_base(empty, <<BaseItem(1, "Alpha"), BaseItem(2, "Beta")>>),
                  "osanikud", 1 :> ShareGroup(1))
        c2 == update_batch_json(c1, "osanikud", 2 :> ShareGroup(2))
        idx == populate_persons(<<>>, c1, 1)
    IN {[companies |-> empty, persons |-> <<>>, nextId |-> 1],
        [companies |-> c1, persons |-> idx, nextId |-> 1 + Len(idx)],
        [companies |-> c2, persons |-> idx, nextId |-> 1 + Len(idx)]}

InitTx ==
    /\ \E st \in TxStores :
          /\ companies = st.companies
          /\ persons = st.persons
          /\ nextId = st.nextId
    /\ sync_state = {}
    /\ files = Baseline
    /\ present = {}
    /\ run = Idle
    /\ batches = 0
    /\ conv = NoConv
    /\ archive = AllOk
    /\ fg = FgIdle
    /\ dl = DlIdle
    /\ q = QIdle
    /\ tx = [open |-> FALSE, n |-> 0, outcome |-> "none"]

\* a writer is called: the calls are made one after the other by one thread
TxCall ==
    /\ ~tx.open
    /\ tx.n < MaxTx
    /\ \E call \in TxCalls :
          tx' = [open |-> TRUE, n |-> tx.n + 1, call |-> call, done |-> 0,
                 work |-> StoreNow]
    /\ UNCHANGED <<companies, persons, nextId, sync_state, files, present, run, batches,
                   conv, archive, fg, dl, q>>

TxStatement ==
    /\ tx.open
    /\ tx.done < NumStatements(tx.call, tx.work)
    /\ tx' = [tx EXCEPT !.done = @ + 1,
                        !.work = ExecStatement(tx.call, tx.done + 1, tx.work)]
    /\ UNCHANGED <<companies, persons, nextId, sync_state, files, present, run, batches,
                   conv, archive, fg, dl, q>>

\* the block ends: commit
TxCommit ==
    /\ tx.open
    /\ tx.done = NumStatements(tx.call, tx.work)
    /\ companies' = tx.work.companies
    /\ persons' = tx.work.persons
    /\ nextId' = tx.work.nextId
    /\ tx' = [open |-> FALSE, n |-> tx.n, outcome |-> "commit", call |-> tx.call,
              done |-> tx.done]
    /\ UNCHANGED <<sync_state, files, present, run, batches, conv, archive, fg, dl, q>>

\* the next statement, or the code between two statements, raises
TxRaise ==
    /\ tx.open
    /\ tx.done < NumStatements(tx.call, tx.work)
    /\ LET st == OnError(StoreNow, tx.work)
       IN /\ companies' = st.companies
          /\ persons' = st.persons
          /\ nextId' = st.nextId
    /\ tx' = [open |-> FALSE, n |-> tx.n, outcome |-> "rollback", call |-> tx.call,
              done |-> tx.done]
    /\ UNCHANGED <<sync_state, files, present, run, batches, conv, archive, fg, dl, q>>

NextTx ==
    \/ TxCall
    \/ TxStatement
    \/ TxCommit
    \/ TxRaise

SpecTx == InitTx /\ [][NextTx]_vars

DocOf(comp, c) == comp[c].full_data.v

ProcessedAll == \A i \in DOMAIN Extracted(present) : Extracted(present)[i] \in sync_state

\* the top-level fields the records of file f contribute to entity c
Contributed(f, c) ==
    IF f \in RoleKeys
    THEN IF \E i \in DOMAIN files[f] : CodeOf(files[f][i]) = JN(c) THEN {f} ELSE {}
    ELSE UNION {{k \in DOMAIN files[f][i].v : files[f][i].v[k] # JNull} :
                   i \in {j \in DOMAIN files[f] : CodeOf(files[f][j]) = JN(c)}}

\* C1: after a completed merge run that processed the base file, the
\* general-data file and at least one role file, the document of every entity
\* with a row holds every field contributed by every processed source that
\* named the entity.
C1_UnionProperty ==
    (run.completed /\ {"lihtandmed", "yldandmed"} \subseteq run.processed
                   /\ run.processed \cap RoleKeys # {})
    => \A c \in DOMAIN companies : \A f \in run.processed :
          Contributed(f, c) \subseteq DOMAIN DocOf(companies, c)

\* C2: insert_batch_base for a code that already has a row leaves the
\* general-data block, the role collections and the derived columns of that
\* code in place.
C2_BaseKeepsOtherSources ==
    [][\A batch \in BoundedSeq(BaseItems, MaxBatch) :
          (companies' = insert_batch_base(companies, batch))
          => \A c \in DOMAIN companies :
                /\ \A k \in {"yldandmed"} \cup RoleKeys :
                      k \in DOMAIN DocOf(companies, c)
                      => /\ k \in DOMAIN DocOf(companies', c)
                         /\ DocOf(companies', c)[k] = DocOf(companies, c)[k]
                /\ DerivedOf(companies')[c] = DerivedOf(companies)[c]]_vars

\* C3: during a merge(force=false) over source files that are all marked
\* complete, no step issues a write batch or changes an entity row, a document
\* or the Person Index.
C3_SyncStateIdempotence ==
    [][(run.phase # "idle" /\ ~run.force /\ ProcessedAll)
       => /\ batches' = batches
          /\ companies' = companies
          /\ persons' = persons]_vars

C3_Witness ==
    /\ run.phase = "pass" /\ ~run.force
    /\ run.idx > Len(Extracted(present)) /\ run.idx > 2
    /\ run.processed = {}
    /\ batches = 0
    /\ DOMAIN companies # {}
    /\ persons # <<>>

\* C4: whenever a run is inside the pass of a file (any point at which it can
\* stop), that file has no completion marker.
C4_NoMarkerDuringPass ==
    InLoop => (~ShouldSkip(run.force, sync_state, Cur) => Cur \notin sync_state)

\* C5 as stated: a forced run that completes over the files of the previous
\* completed forced run leaves the derived columns and the Person Index, its
\* row ids included, as that run left them.
C5_ConvergenceExact ==
    [][(run.phase = "persons" /\ run'.completed /\ conv.valid /\ conv.present = present)
       => /\ DerivedOf(companies') = conv.derived
          /\ persons' = conv.rows]_vars

\* C5 amended: a forced run that completes over the files of the previous
\* completed forced run leaves the derived columns and, apart from the row
\* ids, the records of the Person Index as that run left them.
C5_Convergence ==
    [][(run.phase = "persons" /\ run'.completed /\ conv.valid /\ conv.present = present)
       => /\ DerivedOf(companies') = conv.derived
          /\ StripIds(persons') = conv.index]_vars

C5_Witness ==
    /\ run.completed /\ run.force /\ conv.valid
    /\ persons # <<>>
    /\ persons[1].id > 1
    /\ \E c \in DOMAIN companies : companies[c].capital # JNull

\* C6: a forced run leaves a file only after reading it to its end and marking
\* it, marked before or not; the rebuilds start only in a forced run after the
\* pass of the last extracted file; a run that is not forced starts no rebuild
\* and leaves the Person Index as it is.
C6_ForcedRunOrder ==
    [][/\ (InLoop /\ run.force /\ run'.phase = "pass" /\ run'.idx # run.idx)
          => /\ run.pos = Len(files[Cur])
             /\ Cur \in run'.processed
             /\ Cur \in sync_state'
       /\ (run'.phase = "persons" \/ persons' # persons \/ nextId' # nextId)
          => /\ run.force
             /\ run.idx > Len(Extracted(present))
             /\ run.processed = {Extracted(present)[i] : i \in DOMAIN Extracted(present)}
       /\ (run.phase # "idle" /\ ~run.force)
          => /\ persons' = persons
             /\ run'.phase # "persons"]_vars

C6_Witness ==
    /\ InLoop /\ run.force
    /\ run.idx > 1 /\ run.pos > 0
    /\ ProcessedAll
    /\ persons # <<>>

\* C7: update_batch_json(key, data_map) changes, in the documents of the codes
\* listed in data_map, only the value under key: the other document keys, the
\* columns, the enrichment and the unlisted entities stay, and a search by
\* code returns the document with its earlier fields and the new value.
C7_JsonSetFrame ==
    [][\A key \in BackendKeys : \A data_map \in DataMaps(key) :
          (companies' = update_batch_json(companies, key, data_map))
          => /\ DOMAIN companies' = DOMAIN companies
             /\ \A c \in DOMAIN companies :
                   IF c \notin DOMAIN data_map THEN companies'[c] = companies[c]
                   ELSE /\ [companies'[c] EXCEPT !.full_data = companies[c].full_data]
                              = companies[c]
                        /\ DOMAIN DocOf(companies', c) = (DOMAIN DocOf(companies, c)) \cup {key}
                        /\ DocOf(companies', c)[key] = data_map[c]
                        /\ \A k \in (DOMAIN DocOf(companies, c)) \ {key} :
                              DocOf(companies', c)[k] = DocOf(companies, c)[k]
                        /\ LET res == search_code(companies', c)
                           IN /\ Len(res) = 1
                              /\ res[1].v[key] = data_map[c]
                              /\ \A k \in (DOMAIN DocOf(companies, c)) \ {key} :
                                    res[1].v[k] = DocOf(companies, c)[k]]_vars

C7_Witness ==
    \E c \in DOMAIN companies : \E d \in (DOMAIN companies) \ {c} :
        /\ {"nimi", "yldandmed", "osanikud"} \subseteq DOMAIN DocOf(companies, c)
        /\ companies[c].enrichment # JNull
        /\ companies[c].email # JNull
        /\ "osanikud" \notin DOMAIN DocOf(companies, d)

\* C8: update_batch_json, update_batch_general and update_enrichment leave the
\* set of codes that have a row as it is, whatever codes they name; the set
\* changes only in a step of insert_batch_base: a step that changes it is one
\* of insert_batch_base and of none of the three.
C8_OnlyBaseCreatesRows ==
    [][(DOMAIN companies' # DOMAIN companies)
       => /\ \E batch \in BoundedSeq(BaseItems, MaxBatch) :
                companies' = insert_batch_base(companies, batch)
          /\ ~\E key \in BackendKeys : \E data_map \in DataMaps(key) :
                companies' = update_batch_json(companies, key, data_map)
          /\ ~\E batch \in BoundedSeq(GeneralItems, MaxBatch) :
                companies' = update_batch_general(companies, batch)
          /\ ~\E c \in Codes : \E e \in Enrichments :
                companies' = update_enrichment(companies, c, e)]_vars

C8_Witness ==
    /\ DOMAIN companies = {1}
    /\ {"yldandmed", "osanikud", "kasusaajad"} \subseteq DOMAIN DocOf(companies, 1)
    /\ companies[1].enrichment # JNull

\* the top-level keys the records of a batch name for code c
NamedKeys(batch, c) ==
    UNION {DOMAIN batch[i].v : i \in {j \in DOMAIN batch : CodeOf(batch[j]) = JN(c)}}

\* C9: after update_batch_general every key that was in an entity's document
\* is still there, and the keys no record of the batch names for the entity
\* keep their value, also when a record carries a null-valued field.
C9_PatchAugments ==
    [][\A batch \in BoundedSeq(GeneralItems, MaxBatch) :
          (companies' = update_batch_general(companies, batch))
          => \A c \in DOMAIN companies :
                /\ DOMAIN DocOf(companies, c) \subseteq DOMAIN DocOf(companies', c)
                /\ \A k \in (DOMAIN DocOf(companies, c)) \ NamedKeys(batch, c) :
                      DocOf(companies', c)[k] = DocOf(companies, c)[k]]_vars

\* the first record of a batch that carries code c
RECURSIVE FirstFor(_, _, _)
FirstFor(batch, c, i) ==
    IF CodeOf(batch[i]) = JN(c) THEN batch[i] ELSE FirstFor(batch, c, i + 1)

\* C10: the base attributes stored for a code are those of the first base
\* record written for it: a record for a code that has a row does not replace
\* them, and of two records of one batch the first one stays.
C10_FirstBaseRecordStays ==
    [][\A batch \in BoundedSeq(BaseItems, MaxBatch) :
          (companies' = insert_batch_base(companies, batch))
          => /\ \A c \in DOMAIN companies : companies'[c].name = companies[c].name
             /\ \A c \in (DOMAIN companies') \ (DOMAIN companies) :
                   companies'[c].name = Get(FirstFor(batch, c, 1), "nimi", JNull)]_vars

\* the Person Index category of a role file
SourceOf(f) ==
    CASE f = "osanikud" -> "shareholder"
      [] f = "kasusaajad" -> "beneficiary"
      [] f = "kaardile_kantud_isikud" -> "board"

\* the persons a record of role file f lists
ListedPersons(item, f) ==
    LET x == Get(item, f, JA(<<>>))
    IN IF x.t = "a" THEN x.v ELSE ListOf(Get(x, f, JA(<<>>)))

\* C12: after a completed forced merge that processed the base file, every
\* person a processed shareholder, beneficial-owner or board file lists for an
\* entity with a row has a Person Index record with that entity's code, the
\* file's source category and the person's identifier.
C12_RoleFilesIndexed ==
    (run.completed /\ run.force /\ "lihtandmed" \in run.processed)
    => \A f \in run.processed \cap {"osanikud", "kasusaajad", "kaardile_kantud_isikud"} :
          \A i \in DOMAIN files[f] :
             LET c == CodeOf(files[f][i]).v
                 ps == ListedPersons(files[f][i], f)
             IN c \in DOMAIN companies
                => \A j \in DOMAIN ps :
                      \E k \in DOMAIN persons :
                         /\ persons[k].company_code = c
                         /\ persons[k].source = SourceOf(f)
                         /\ persons[k].id_code
                               = StrOrNone(Get(ps[j], "isikukood_registrikood", JS("")))

\* C20: a merge call over archives of which one cannot be unpacked or has no
\* entry does not raise, and the run it completes has marked every present
\* source whose archive is good and not the bad one.
C20_BadArchiveIsolated ==
    /\ BadArchives(present, archive) # {} => ~run.raised
    /\ run.completed => \A f \in present : (archive[f] = "ok") <=> (f \in sync_state)

Sources == {"board", "shareholder", "beneficiary"}

DocKey(source) ==
    CASE source = "board" -> "isikud"
      [] source = "shareholder" -> "osanikud"
      [] source = "beneficiary" -> "kasusaajad"

\* the persons nested in the document of code c for a source category: those
\* of the lists held by the groups that are objects
RECURSIVE NestedIn(_, _, _)
NestedIn(groups, inner, i) ==
    IF i > Len(groups) THEN <<>>
    ELSE (IF groups[i].t = "o" /\ inner \in DOMAIN groups[i].v /\ groups[i].v[inner].t = "a"
          THEN groups[i].v[inner].v ELSE <<>>)
         \o NestedIn(groups, inner, i + 1)

Nested(comp, c, source) ==
    IF c \in DOMAIN comp /\ DocKey(source) \in DOMAIN DocOf(comp, c)
       /\ DocOf(comp, c)[DocKey(source)].t = "a"
    THEN NestedIn(DocOf(comp, c)[DocKey(source)].v, InnerKey(DocKey(source)), 1)
    ELSE <<>>

RecordsOf(ps, c, source) ==
    {k \in DOMAIN ps : ps[k].company_code = c /\ ps[k].source = source}

\* C11: a step of populate_persons leaves an index in which every record has
\* an id the rebuild assigned (none survives from before), which holds for
\* every entity code and source category as many records as persons are nested
\* in that entity's document, each nested person's identifier among them, and
\* which a second rebuild over the same documents reproduces apart from ids.
C11_IndexIsFunctionOfDocuments ==
    [][(persons' # persons \/ nextId' # nextId)
       => /\ \A k \in DOMAIN persons' : persons'[k].id >= nextId /\ persons'[k].id < nextId'
          /\ \A c \in Codes : \A source \in Sources :
                LET nested == Nested(companies, c, source)
                IN /\ Cardinality(RecordsOf(persons', c, source)) = Len(nested)
                   /\ \A j \in DOMAIN nested :
                         \E k \in RecordsOf(persons', c, source) :
                            persons'[k].id_code
                               = StrOrNone(Get(nested[j], "isikukood_registrikood", JS("")))
          /\ \A k \in DOMAIN persons' : persons'[k].company_code \in DOMAIN companies
          /\ StripIds(populate_persons(persons', companies', nextId')) = StripIds(persons')]_vars

C11_Witness ==
    /\ persons # <<>>
    /\ persons[1].id > 1
    /\ \A source \in Sources : \E k \in DOMAIN persons : persons[k].source = source
    /\ \E c \in DOMAIN companies : \E source \in Sources :
          /\ DocKey(source) \in DOMAIN DocOf(companies, c)
          /\ RecordsOf(persons, c, source) = {}

NoDup(seq) == \A i, j \in DOMAIN seq : i # j => seq[i] # seq[j]

SubCodes == [i \in DOMAIN fg.subsidiaries |-> fg.subsidiaries[i].company_code]

\* the entity codes the Person Index names, as entity or as shareholder
IndexCodes ==
    {persons[k].company_code : k \in DOMAIN persons}
    \cup {n \in Nodes : \E k \in DOMAIN persons : persons[k].id_code = JS(ToString(n))}

\* C13: a traversal that has started ends; in it the owned-by lookup runs at
\* most once for an entity code, so the number of lookups is at most the number
\* of distinct codes, whatever max_depth is and also on cyclic ownership.
C13_TerminatesExpandingOnce ==
    /\ [](/\ NoDup(fg.expanded)
          /\ Len(fg.expanded) <= Cardinality(IndexCodes \cup {fg.root}))
    /\ (fg.phase = "loop") ~> (fg.phase = "done")

C13_Witness ==
    /\ fg.phase = "done"
    /\ fg.max_depth = MaxDepth
    /\ Len(fg.expanded) = 2
    /\ \E i \in DOMAIN fg.subsidiaries : fg.subsidiaries[i].company_code = fg.root

\* C14: the subsidiaries a finished traversal returns name no entity code
\* twice and do not name the root.
C14_EachEntityOnce ==
    fg.phase = "done"
    => /\ NoDup(SubCodes)
       /\ \A i \in DOMAIN SubCodes : SubCodes[i] # fg.root

\* C15: every subsidiary result has a shareholder record of that subsidiary
\* whose identifier is parent_code, and either parent_code is the root and the
\* depth is 1 or parent_code is a subsidiary result of depth one less.
C15_DepthAndParentFormTree ==
    \A i \in DOMAIN fg.subsidiaries :
       LET sub == fg.subsidiaries[i]
       IN /\ \E k \in DOMAIN persons :
                /\ persons[k].company_code = sub.company_code
                /\ persons[k].source = "shareholder"
                /\ persons[k].id_code = JS(ToString(sub.parent_code))
          /\ \/ sub.parent_code = fg.root /\ sub.depth = 1
             \/ \E j \in DOMAIN fg.subsidiaries :
                   /\ fg.subsidiaries[j].company_code = sub.parent_code
                   /\ fg.subsidiaries[j].depth = sub.depth - 1

C15_Witness ==
    /\ fg.phase = "done"
    /\ \E i \in DOMAIN fg.subsidiaries :
          /\ fg.subsidiaries[i].depth = 3
          /\ fg.subsidiaries[i].parent_code # fg.root
    /\ ~NoDup(SubCodes)

\* the entities that have a shareholder record with identifier x
OwnedBy(x) ==
    {persons[k].company_code : k \in {i \in DOMAIN persons :
        persons[i].source = "shareholder" /\ persons[i].id_code = JS(ToString(x))}}

\* the entities at the end of a chain of exactly d links from the root
RECURSIVE ChainEnds(_, _)
ChainEnds(root, d) ==
    IF d = 0 THEN {root} ELSE UNION {OwnedBy(x) : x \in ChainEnds(root, d - 1)}

Reachable(root, max_depth) == UNION {ChainEnds(root, d) : d \in 1..max_depth}

C17_ResumeFromLocalSize ==
    \A f \in DlFiles :
       /\ Len(dl.requests[f]) <= 1
       /\ (dl.phase # "idle" /\ dl.pc[f] = "done")
          => IF dl.initial[f] < dl.remote[f]
             THEN dl.requests[f] = <<dl.initial[f]>> /\ dl.local[f] = dl.remote[f]
             ELSE dl.requests[f] = <<>> /\ dl.local[f] = dl.initial[f]

C17_Witness ==
    /\ dl.phase = "returned"
    /\ \E f \in DlFiles :
          /\ dl.pc[f] = "done" /\ dl.initial[f] = 1 /\ dl.remote[f] = 2
          /\ dl.requests[f] = <<1>>
    /\ \E f \in DlFiles :
          /\ dl.pc[f] = "done" /\ dl.initial[f] > dl.remote[f] /\ dl.requests[f] = <<>>

\* C18: run() returns after every start, and when it has returned every worker
\* whose probe and transfer did not fail has completed its file, whichever
\* other workers failed.
C18_FailuresIsolated ==
    /\ [](dl.phase = "returned"
          => \A f \in DlFiles :
                /\ dl.pc[f] \in {"done", "failed"}
                /\ dl.pc[f] = "done" => dl.local[f] >= dl.remote[f])
    /\ [](\A f \in DlFiles : \A g \in DlFiles \ {f} :
             (dl.phase = "running" /\ dl.pc[f] = "failed" /\ dl.pc[g] \notin {"done", "failed"})
             => ENABLED (DlProbe(g) \/ DlTransfer(g)))
    /\ (dl.phase = "running") ~> (dl.phase = "returned")

C18_Witness ==
    /\ dl.phase = "returned"
    /\ \E f \in DlFiles : \E g \in DlFiles \ {f} :
          /\ dl.pc[f] = "failed"
          /\ dl.pc[g] = "done" /\ dl.initial[g] < dl.remote[g] /\ dl.local[g] = dl.remote[g]

\* C19: when run() has returned its result is true exactly when the local
\* size of at least one file differs from what it was when run() was called,
\* and sync() has called the merge only after a true result of that kind.
C19_ResultTellsChange ==
    LET changed == \E f \in DlFiles : dl.local[f] # dl.initial[f]
    IN /\ dl.phase = "returned" => (dl.result <=> changed)
       /\ dl.merged => changed

\* the files that hold a record whose code does not parse
HasBadCode(f) == \E i \in DOMAIN files[f] : ~IntParses(CodeOf(files[f][i]))

\* the codes the records of file f before position n carry
CodesUpTo(f, n) == {c \in Codes : \E i \in 1..n : CodeOf(files[f][i]) = JN(c)}

\* C21: a merge call over a file that holds a record whose code does not parse
\* does not raise, and the run it completes has marked that file and written
\* a row for every code the base file's other records carry.
C21_BadCodeDropped ==
    /\ BadArchives(present, archive) = {} => ~run.raised
    /\ (run.completed /\ \E f \in present : HasBadCode(f))
       => /\ \A f \in present : f \in sync_state
          /\ CodesUpTo("lihtandmed", Len(files["lihtandmed"])) \subseteq DOMAIN companies

\* the codes of the documents a search returned
ResultCodes == {CodeOf(q.result[i]).v : i \in DOMAIN q.result}

\* what each filter asks of its own field: the term of the code or the name,
\* the status filter of the status, the person filter of the text of the
\* document or the enrichment, the capital range of the capital, the contact
\* flags of the contact columns
OwnFieldMatches(row, code, a) ==
    /\ Truthy(a.term)
       => IF IsDigit(a.term.v) THEN code = IntOfTerm(a.term.v)
          ELSE row.name.t = "s" /\ Like(a.term.v, row.name.v)
    /\ Truthy(a.status) => (row.status.t = "s" /\ Like(a.status.v, row.status.v))
    /\ Truthy(a.person)
       => (TextLike(a.person.v, row.full_data) \/ TextLike(a.person.v, row.enrichment))
    /\ a.min_capital # JNull => (row.capital # JNull /\ row.capital.v >= a.min_capital.v)
    /\ a.max_capital # JNull => (row.capital # JNull /\ row.capital.v <= a.max_capital.v)
    /\ a.has_email => row.email # JNull
    /\ a.has_phone => row.phone # JNull
    /\ a.has_website => row.website # JNull

\* C22: a search returns exactly the entities whose own fields match every
\* supplied filter, each once.
C22_SearchIsConjunction ==
    q.op = "search"
    => /\ ResultCodes = {c \in DOMAIN companies : OwnFieldMatches(companies[c], c, q.args)}
       /\ Len(q.result) = Cardinality(ResultCodes)

\* C23: after update_enrichment(c, e) on an entity c that has a row, a search
\* by code c returns one document whose "enrichment" is e, whose other fields
\* are the fields of the stored document, and every other row (document,
\* columns, enrichment) and the document and columns of c are as before.
C23_EnrichmentRoundTrip ==
    [][\A c \in DOMAIN companies : \A e \in Enrichments :
          (companies' = update_enrichment(companies, c, e))
          => /\ DOMAIN companies' = DOMAIN companies
             /\ \A d \in (DOMAIN companies) \ {c} : companies'[d] = companies[d]
             /\ [companies'[c] EXCEPT !.enrichment = companies[c].enrichment]
                   = companies[c]
             /\ LET res == search_code(companies', c)
                IN /\ Len(res) = 1
                   /\ res[1].v["enrichment"] = e
                   /\ DOMAIN res[1].v = (DOMAIN DocOf(companies, c)) \cup {"enrichment"}
                   /\ \A k \in (DOMAIN DocOf(companies, c)) \ {"enrichment"} :
                         res[1].v[k] = DocOf(companies, c)[k]]_vars

C23_Witness ==
    \E c \in DOMAIN companies : \E d \in (DOMAIN companies) \ {c} :
        /\ companies[c].enrichment # JNull
        /\ search_code(companies, c)[1].v["enrichment"] = companies[c].enrichment
        /\ companies[d].enrichment = JNull
        /\ "yldandmed" \in DOMAIN DocOf(companies, c)
        /\ "osanikud" \in DOMAIN DocOf(companies, d)

\* the capital history of the item a call was made on
HistoryOf(item) ==
    IF "yldandmed" \in DOMAIN item.v /\ "kapitalid" \in DOMAIN item.v["yldandmed"].v
       /\ item.v["yldandmed"].v["kapitalid"].t = "a"
    THEN item.v["yldandmed"].v["kapitalid"].v
    ELSE <<>>

IsOpen(e) == "lopp_kpv" \notin DOMAIN e.v \/ e.v["lopp_kpv"] = JNull

StartDate(e) == IF "algus_kpv" \in DOMAIN e.v THEN e.v["algus_kpv"].v ELSE 0

\* what an entry yields: its amount as a number with its currency, EUR when
\* it names none, or nothing when the amount is no number
YieldOf(e) ==
    LET a == e.v["kapitali_suurus"]
        cur == IF "kapitali_valuuta" \in DOMAIN e.v THEN e.v["kapitali_valuuta"] ELSE JS("EUR")
    IN IF a.t = "n" THEN <<a, cur>>
       ELSE IF a = JS("2500") THEN <<JN(2500), cur>>
       ELSE <<JNull, JNull>>

\* C24: the derived capital and currency come from an entry without end date
\* whose start is the latest among the entries without end date, or, when
\* every entry has an end date, from an entry with the latest start; they are
\* absent when the history is empty or the amount of that entry is no number.
C24_LatestCapital ==
    q.op = "capital"
    => LET h == HistoryOf(q.item)
           open == {i \in 1..Len(h) : IsOpen(h[i])}
           pool == IF open # {} THEN open ELSE 1..Len(h)
       IN IF h = <<>> THEN q.result = <<JNull, JNull>>
          ELSE \E i \in pool :
                  /\ \A j \in pool : StartDate(h[j]) <= StartDate(h[i])
                  /\ q.result = YieldOf(h[i])

\* a closed entry with the latest start and a number, and two open entries,
\* the later of them second: the result is the later open entry's
C24_Witness ==
    /\ q.op = "capital"
    /\ LET h == HistoryOf(q.item)
       IN /\ Len(h) = 3
          /\ ~IsOpen(h[1]) /\ StartDate(h[1]) = 2 /\ YieldOf(h[1]) = <<JN(100), JS("USD")>>
          /\ IsOpen(h[2]) /\ StartDate(h[2]) = 0
          /\ IsOpen(h[3]) /\ StartDate(h[3]) = 1
          /\ q.result = <<JN(2500), JS("EUR")>>

\* the payloads of the records of file f that name entity c, in file order
PayloadsOf(f, c) ==
    LET named == SelectSeq(files[f], LAMBDA r : CodeOf(r) = JN(c))
    IN [i \in 1..Len(named) |-> Get(named[i], f, named[i])]

\* C25: when the pass over a role file completes (the file is marked), every
\* entity that has a row and is named by records of the file holds, under the
\* file's key, the payloads of all those records, whatever chunks they fell
\* into.
C25_AllChunksKept ==
    [][(InLoop /\ Cur \in RoleKeys /\ Cur \notin run.processed
        /\ run'.processed = run.processed \cup {Cur})
       => \A c \in DOMAIN companies :
             PayloadsOf(Cur, c) # <<>>
             => /\ Cur \in DOMAIN DocOf(companies', c)
                /\ DocOf(companies', c)[Cur] = JA(PayloadsOf(Cur, c))]_vars

\* C26: between merge runs, whatever runs were made and wherever they were
\* interrupted, every role file that is marked complete has its key in the
\* document of every entity that has a row and is named by the file.
C26_MarkedMeansContributed ==
    run.phase = "idle"
    => \A f \in sync_state \cap RoleKeys : \A c \in DOMAIN companies :
          Contributed(f, c) \subseteq DOMAIN DocOf(companies, c)

\* what the extraction functions yield on a document, a value that is empty
\* counted as absent
ExtractedFrom(doc) ==
    LET cap == extract_latest_capital(doc)
        con == extract_contacts(doc)
        emp == extract_latest_employees(doc)
        val(x) == IF Truthy(x) THEN x ELSE JNull
    IN <<cap[1], cap[2], val(con[1]), val(con[2]), val(con[3]), emp>>

\* C27: after a batch of the general-data pass, for the entities it wrote,
\* and after rebuild_derived_columns, for every entity, the capital, currency,
\* email, phone, website and employee count columns equal what the
\* extraction functions yield on the entity's document, absent included.
C27_DerivedMatchDocument ==
    [][/\ (InLoop /\ Cur = "yldandmed" /\ batches' = batches + 1)
          => \A c \in DOMAIN companies :
                companies'[c] # companies[c]
                => DerivedOf(companies')[c] = ExtractedFrom(companies'[c].full_data)
       /\ (run.phase = "pass" /\ run'.phase = "persons")
          => \A c \in DOMAIN companies' :
                DerivedOf(companies')[c] = ExtractedFrom(companies'[c].full_data)]_vars

\* C28: an enrichment block attached to an entity stays as it is through
\* every later write the merge makes (insert_batch_base of the base pass,
\* update_batch_general, update_batch_json).
C28_EnrichmentSurvives ==
    [][\A c \in DOMAIN companies :
          companies[c].enrichment # JNull
          => /\ c \in DOMAIN companies'
             /\ companies'[c].enrichment = companies[c].enrichment]_vars

\* what a call does as a whole to a store
WholeCall(call, st) ==
    CASE call.op = "insert_batch_base" ->
            [st EXCEPT !.companies = insert_batch_base(@, call.batch)]
      [] call.op = "update_batch_general" ->
            [st EXCEPT !.companies = update_batch_general(@, call.batch)]
      [] call.op = "update_batch_json" ->
            [st EXCEPT !.companies = update_batch_json(@, call.key, call.data_map)]
      [] call.op = "populate_persons" ->
            [st EXCEPT !.persons = populate_persons(st.persons, st.companies, st.nextId),
                       !.nextId = @ + Len(AllPersons(st.companies, 1))]

C30_FetchBarrier ==
    [][/\ dl'.phase = "running" => DOMAIN dl'.pc = DlFiles
       /\ dl'.phase \in {"returned", "merged"}
          => \A f \in DlFiles : dl'.pc[f] \in {"done", "failed"}
       /\ dl.phase \in {"returned", "merged"} /\ dl'.phase \in {"returned", "merged"}
          => dl'.local = dl.local /\ dl'.pc = dl.pc]_vars

\* the merge was reached after a worker wrote bytes and another failed
C30_Witness ==
    /\ dl.phase = "merged"
    /\ \E f \in DlFiles : dl.pc[f] = "done" /\ dl.local[f] > dl.initial[f]
    /\ \E f \in DlFiles : dl.pc[f] = "failed"
====
